---- MODULE Spec2Model ----
(***************************************************************************)
(* Trade execution safety gate of the ORDER nodes (nodes-base).            *)
(*                                                                         *)
(* The model follows one node invocation of AlpacaMarkets.execute item by  *)
(* item (context resolution, decision, credentials, trade or mock,         *)
(* tracking, output), and direct calls of the public helpers:              *)
(* OrderNodeExecutor.determineExecutionBehavior with an arbitrary config,  *)
(* forcePaperTradingCredentials and isPaperTrading (Spec), trackOrder and  *)
(* sendOrderToAPI with arbitrary arguments (TrackerSpec), and two runs of   *)
(* execute interleaved over shared credential objects (ConcurrentSpec).    *)
(* The host engine (workflow, run data, node parameters, credentials       *)
(* store, brokerage and ledger endpoints) is the environment: its signals  *)
(* are drawn from small sets.                                              *)
(***************************************************************************)
EXTENDS Integers, Sequences, FiniteSets, TLC

\* largest number of input items of one node invocation
MaxItems == 2

(***************************************************************************)
(* Enums (utils/order-node-types, camelCase members as the nodes use them) *)
(***************************************************************************)
executeStep == "execute-step"
manualInactive == "manual-inactive"
active == "active"
OrderExecutionContext == {executeStep, manualInactive, active}

\* config.executionContext may be null
null == "null"

TradingEnvironment == {"mock", "paper", "live"}

\* JavaScript undefined for a missing field
undefined == "undefined"

\* node.name of the node being executed
NodeName == "Alpaca Markets"

\* operations a node parameter or an input item can name
Operations == {"placeOrder", "cancelOrder", "modifyOrder", "getAccount"}

(***************************************************************************)
(* Host signals, read-only for the core.                                   *)
(*   tagged          nodeType.description.metadata.tags includes 'ORDER'   *)
(*   active          workflow.active                                       *)
(*   settings        "absent": workflow.settings undefined;                *)
(*                   "unset": settings present without tradingMode;        *)
(*                   "mock" | "paper": settings.tradingMode                *)
(*   mode            context.mode ?? context.getMode(); "unavailable" when *)
(*                   neither the field nor the accessor is populated       *)
(*   destinationNode runExecutionData?.startData?.destinationNode          *)
(*   parentNodes     getParentNodes(node.name): "none" (empty, or accessor *)
(*                   absent), "some", or "throws"                          *)
(*   nItems          getInputData().length                                 *)
(*   firstJsonEmpty  Object.keys(items[0].json).length === 0               *)
(***************************************************************************)
Hosts ==
    { h \in [ tagged : BOOLEAN,
              active : BOOLEAN,
              settings : {"absent", "unset", "mock", "paper"},
              mode : {"manual", "trigger", "unavailable"},
              destinationNode : {NodeName, "Other Node", undefined},
              parentNodes : {"none", "some", "throws"},
              nItems : 0..MaxItems,
              firstJsonEmpty : BOOLEAN ] :
        h.nItems = 0 => ~h.firstJsonEmpty }

\* workflowSettings.tradingMode after `workflow.settings ?? {}`
tradingModeOf(h) ==
    IF h.settings \in {"absent", "unset"} THEN undefined ELSE h.settings

(***************************************************************************)
(* ExecutionContextResolver                                                *)
(***************************************************************************)
\* `contextAny.mode ?? context.getMode()` raises a TypeError when the host
\* populated neither the field nor the accessor
\* variant: the accessor is called optionally (`getMode?.()`), nothing raises
getOrderExecutionContextThrowsNever(h) == FALSE

getOrderExecutionContextThrows(h) == h.mode = "unavailable"

\* variant: the active rule is tried before the execute-step rule
getOrderExecutionContextActiveFirst(h) ==
    LET destinationNode == h.destinationNode
        isManual == h.mode = "manual"
        isWorkflowActive == h.active
        isExecuteStep == destinationNode = NodeName
    IN  IF isWorkflowActive THEN active
        ELSE IF isExecuteStep /\ isManual THEN executeStep
        ELSE IF isManual /\ ~isWorkflowActive THEN manualInactive
        ELSE manualInactive

getOrderExecutionContext(h) ==
    LET destinationNode == h.destinationNode
        isManual == h.mode = "manual"
        isWorkflowActive == h.active
        isExecuteStep == destinationNode = NodeName
    IN  IF isExecuteStep /\ isManual THEN executeStep
        ELSE IF isManual /\ ~isWorkflowActive THEN manualInactive
        ELSE IF isWorkflowActive THEN active
        ELSE manualInactive

(***************************************************************************)
(* TradingDecisionEngine (OrderNodeExecutor)                               *)
(***************************************************************************)
hasOrderMetadata(h) == h.tagged

isTradeOperation(operation) ==
    operation = "placeOrder" \/ operation = "cancelOrder" \/ operation = "modifyOrder"

hasMinimalInput(h) ==
    h.nItems = 0 \/ (h.nItems = 1 /\ h.firstJsonEmpty)

\* variant: one of the two conditions is enough to refine
refineExecutionContextEither(h, currentContext) ==
    IF h.mode = "manual" /\ ~h.active /\ currentContext = manualInactive
    THEN IF h.parentNodes = "throws" THEN currentContext
         ELSE IF h.parentNodes = "none" \/ hasMinimalInput(h) THEN executeStep
         ELSE currentContext
    ELSE currentContext

\* variant: the run-mode is not consulted
refineExecutionContextAnyMode(h, currentContext) ==
    IF ~h.active /\ currentContext = manualInactive
    THEN IF h.parentNodes = "throws" THEN currentContext
         ELSE IF h.parentNodes = "none" /\ hasMinimalInput(h) THEN executeStep
         ELSE currentContext
    ELSE currentContext

refineExecutionContext(h, currentContext) ==
    IF h.mode = "manual" /\ ~h.active /\ currentContext = manualInactive
    THEN IF h.parentNodes = "throws" THEN currentContext
         ELSE IF h.parentNodes = "none" /\ hasMinimalInput(h) THEN executeStep
         ELSE currentContext
    ELSE currentContext

ExecutionResult(ctx, mock, paper, real) ==
    [context |-> ctx, shouldMock |-> mock, forcePaperTrading |-> paper,
     executeRealTrade |-> real]

\* variant: the active-workflow branch precedes the execute-step branch
determineExecutionBehaviorActiveFirst(h, config) ==
    IF ~config.hasOrderMetadata \/ ~config.isTradeOperation
    THEN ExecutionResult(IF config.executionContext = null THEN manualInactive
                         ELSE config.executionContext, FALSE, FALSE, TRUE)
    ELSE
    LET detectedContext == IF config.executionContext = null
                           THEN IF getOrderExecutionContextThrows(h) THEN executeStep
                                ELSE getOrderExecutionContext(h)
                           ELSE config.executionContext
        tradingMode == IF tradingModeOf(h) = undefined THEN "mock" ELSE tradingModeOf(h)
        isWorkflowActive == h.active
    IN  IF isWorkflowActive
        THEN ExecutionResult(detectedContext, FALSE, FALSE, TRUE)
        ELSE IF detectedContext = executeStep
        THEN ExecutionResult(detectedContext, TRUE, TRUE, FALSE)
        ELSE
        LET refinedContext == IF detectedContext = manualInactive
                              THEN refineExecutionContext(h, detectedContext)
                              ELSE detectedContext
        IN  IF detectedContext = manualInactive /\ refinedContext = executeStep
            THEN ExecutionResult(refinedContext, TRUE, TRUE, FALSE)
            ELSE IF tradingMode = "mock"
            THEN ExecutionResult(refinedContext, TRUE, TRUE, FALSE)
            ELSE ExecutionResult(refinedContext, FALSE, TRUE, TRUE)

\* variant: the inactive paper branch forgets executeRealTrade
determineExecutionBehaviorPaperIdle(h, config) ==
    IF ~config.hasOrderMetadata \/ ~config.isTradeOperation
    THEN ExecutionResult(IF config.executionContext = null THEN manualInactive
                         ELSE config.executionContext, FALSE, FALSE, TRUE)
    ELSE
    LET detectedContext == IF config.executionContext = null
                           THEN IF getOrderExecutionContextThrows(h) THEN executeStep
                                ELSE getOrderExecutionContext(h)
                           ELSE config.executionContext
        tradingMode == IF tradingModeOf(h) = undefined THEN "mock" ELSE tradingModeOf(h)
        isWorkflowActive == h.active
    IN  IF detectedContext = executeStep
        THEN ExecutionResult(detectedContext, TRUE, TRUE, FALSE)
        ELSE IF isWorkflowActive
        THEN ExecutionResult(detectedContext, FALSE, FALSE, TRUE)
        ELSE
        LET refinedContext == IF detectedContext = manualInactive
                              THEN refineExecutionContext(h, detectedContext)
                              ELSE detectedContext
        IN  IF detectedContext = manualInactive /\ refinedContext = executeStep
            THEN ExecutionResult(refinedContext, TRUE, TRUE, FALSE)
            ELSE IF tradingMode = "mock"
            THEN ExecutionResult(refinedContext, TRUE, TRUE, FALSE)
            ELSE ExecutionResult(refinedContext, FALSE, TRUE, FALSE)

\* variant: the permissive guard requires both conditions
determineExecutionBehaviorBothMissing(h, config) ==
    IF ~config.hasOrderMetadata /\ ~config.isTradeOperation
    THEN ExecutionResult(IF config.executionContext = null THEN manualInactive
                         ELSE config.executionContext, FALSE, FALSE, TRUE)
    ELSE
    LET detectedContext == IF config.executionContext = null
                           THEN IF getOrderExecutionContextThrows(h) THEN executeStep
                                ELSE getOrderExecutionContext(h)
                           ELSE config.executionContext
        tradingMode == IF tradingModeOf(h) = undefined THEN "mock" ELSE tradingModeOf(h)
        isWorkflowActive == h.active
    IN  IF detectedContext = executeStep
        THEN ExecutionResult(detectedContext, TRUE, TRUE, FALSE)
        ELSE IF isWorkflowActive
        THEN ExecutionResult(detectedContext, FALSE, FALSE, TRUE)
        ELSE
        LET refinedContext == IF detectedContext = manualInactive
                              THEN refineExecutionContext(h, detectedContext)
                              ELSE detectedContext
        IN  IF detectedContext = manualInactive /\ refinedContext = executeStep
            THEN ExecutionResult(refinedContext, TRUE, TRUE, FALSE)
            ELSE IF tradingMode = "mock"
            THEN ExecutionResult(refinedContext, TRUE, TRUE, FALSE)
            ELSE ExecutionResult(refinedContext, FALSE, TRUE, TRUE)

determineExecutionBehavior(h, config) ==
    IF ~config.hasOrderMetadata \/ ~config.isTradeOperation
    THEN ExecutionResult(IF config.executionContext = null THEN manualInactive
                         ELSE config.executionContext, FALSE, FALSE, TRUE)
    ELSE
    LET detectedContext == IF config.executionContext = null
                           THEN IF getOrderExecutionContextThrows(h) THEN executeStep
                                ELSE getOrderExecutionContext(h)
                           ELSE config.executionContext
        tradingMode == IF tradingModeOf(h) = undefined THEN "mock" ELSE tradingModeOf(h)
        isWorkflowActive == h.active
    IN  IF detectedContext = executeStep
        THEN ExecutionResult(detectedContext, TRUE, TRUE, FALSE)
        ELSE IF isWorkflowActive
        THEN ExecutionResult(detectedContext, FALSE, FALSE, TRUE)
        ELSE
        LET refinedContext == IF detectedContext = manualInactive
                              THEN refineExecutionContext(h, detectedContext)
                              ELSE detectedContext
        IN  IF detectedContext = manualInactive /\ refinedContext = executeStep
            THEN ExecutionResult(refinedContext, TRUE, TRUE, FALSE)
            ELSE IF tradingMode = "mock"
            THEN ExecutionResult(refinedContext, TRUE, TRUE, FALSE)
            ELSE ExecutionResult(refinedContext, FALSE, TRUE, TRUE)

(***************************************************************************)
(* OrderNodeExecutor.determineExecutionBehavior of trading/, the           *)
(* TradingEnvironment engine.  The nodes import the utils/ engine above.   *)
(***************************************************************************)
\* TradingEnvironment engine: returns {tradingEnvironment} or raises an
\* ApplicationError when the trading mode is not configured
EnvResult(raised, env) == [raised |-> raised, tradingEnvironment |-> env]

determineExecutionBehaviorTrading(h, config) ==
    IF ~config.hasOrderMetadata \/ ~config.isTradeOperation
    THEN EnvResult("none", "live")
    ELSE IF h.settings = "absent"
    THEN EnvResult("Workflow settings are missing from the workflow object", "none")
    ELSE IF tradingModeOf(h) = undefined
    THEN EnvResult("Trading mode is not defined in workflow settings", "none")
    ELSE IF h.active THEN EnvResult("none", "live")
    ELSE IF tradingModeOf(h) = "mock" THEN EnvResult("none", "mock")
    ELSE EnvResult("none", "paper")

(***************************************************************************)
(* CredentialGuard                                                         *)
(***************************************************************************)
\* A credentials object is a record; ref names the object (two records with
\* the same ref are the same object), the other fields are its properties.
\* the object an object literal creates: one that did not exist before
freshRef(ref) == ref + 1

\* variant: the copy keeps the stored environment
forcePaperTradingCredentialsInPlace(credentials) ==
    [credentials EXCEPT !.environment = "paper"]
forcePaperTradingCredentialsKeep(credentials) == credentials

\* variant: the copy is built from the environment alone
forcePaperTradingCredentialsBare(credentials) ==
    [ref |-> freshRef(credentials.ref), environment |-> "paper",
     secretKey |-> undefined]

\* return { ...credentials, environment: TradingEnvironment.paper }
forcePaperTradingCredentials(credentials) ==
    [credentials EXCEPT !.ref = freshRef(credentials.ref),
                        !.environment = "paper"]

\* credentials?.environment === TradingEnvironment.paper
isPaperTrading(credentials) == credentials.environment = "paper"

StoredCredentials ==
    [ref : {1}, environment : {"paper", "live", undefined},
     secretKey : {"sk-1", "sk-2"}]

\* credentials === undefined: every `credentials?.field` reads undefined
undefinedCredentials ==
    [ref |-> 0, environment |-> undefined, secretKey |-> undefined]

(***************************************************************************)
(* Brokerage endpoints (AlpacaMarkets.execute)                             *)
(***************************************************************************)
PaperUrl == "https://paper-api.alpaca.markets"
LiveUrl == "https://api.alpaca.markets"

getBaseUrl(credentials) ==
    LET environment == IF credentials.environment = undefined THEN "paper"
                       ELSE credentials.environment
    IN  IF environment = "paper" THEN PaperUrl ELSE LiveUrl

\* fabricated response, marked so that consumers can tell it from a real fill
mockAlpacaPlaceOrderResponse == "mock"

(***************************************************************************)
(* OrderTracker and TradingAPIClient                                       *)
(*   ledger environment, read when the tracking call runs:                 *)
(*   apiKey        process.env.PLAYBOOK_API_KEY is set                     *)
(*   userId        a user id is resolvable (additionalData or owner)       *)
(*   executionMode $execution.mode                                         *)
(*   transportOk   the POST reaches the ledger and is answered             *)
(***************************************************************************)
LedgerEnvs ==
    [apiKey : BOOLEAN, userId : BOOLEAN, executionMode : {"test", "manual"},
     transportOk : BOOLEAN]

getTradingExecutionContext(h, env) ==
    [userId |-> IF env.userId THEN "user-1" ELSE undefined,
     executionMode |-> IF env.executionMode = "test" THEN "test" ELSE "production"]

\* variant: the active flag of the workflow is not consulted
determineTestModeWithCredentialsIgnoreActive(credentials, executionMode, workflowActive) ==
    IF credentials.environment = "paper" THEN TRUE
    ELSE IF executionMode = "test" THEN TRUE
    ELSE FALSE

determineTestModeWithCredentials(credentials, executionMode, workflowActive) ==
    IF credentials.environment = "paper" THEN TRUE
    ELSE IF executionMode = "test" THEN TRUE
    ELSE IF ~workflowActive THEN TRUE
    ELSE FALSE

OrderTypes == {"stock", "crypto", "predictionMarket", "sportsBetting"}

\* endpointMap[orderType]
endpointMap(orderType) ==
    CASE orderType = "stock" -> "/api/trading-orders/stock"
      [] orderType = "crypto" -> "/api/trading-orders/crypto"
      [] orderType = "predictionMarket" -> "/api/trading-orders/prediction-market"
      [] orderType = "sportsBetting" -> "/api/trading-orders/sports-betting"

\* apiBaseUrl ?? process.env.PLAYBOOK_API_BASE_URL ?? 'http://127.0.0.1:3005'
\* (the environment variable is taken as unset)
DefaultLedgerUrl == "http://127.0.0.1:3005"
ApiBaseUrls == {undefined, "http://ledger.example"}

NoPost == [issued |-> FALSE, url |-> <<"none", "none">>,
           apiKeyHeader |-> FALSE, userIdHeader |-> FALSE,
           bodyUserId |-> FALSE, environment |-> "none",
           executionMode |-> "none", executionContext |-> "none"]

\* log lines of the tracking pipeline, "<level>:<message>"
LogSkipping == "info:Skipping database write for mock mode trade"
LogBlocking == "info:Blocking database write - mock mode detected (safety check)"
LogNoContext == "warn:Could not determine OrderExecutionContext for tracking"
LogNoUserId == "warn:User ID not available in execution context"
LogFailed == "warn:Failed to track order in API"
LogTrackingError == "warn:Failed to track order"

\* outcome of one tracking call: what was decided (isMockMode of trackOrder),
\* whether sendOrderToAPI was invoked (sent), whether its safety check
\* returned early (blocked), whether the call raised (threw), the POST that
\* went over the wire, the log lines written, the value the caller got
TrackOutcome(mock, sent, blocked, threw, post, log, result) ==
    [isMockMode |-> mock, sent |-> sent, blocked |-> blocked, threw |-> threw,
     post |-> post, log |-> log, result |-> result]

\* variant: the transport failure is passed on to the caller
sendOrderToAPIRethrow(h, env, orderData, orderType, apiBaseUrl) ==
    LET execContext == getTradingExecutionContext(h, env)
        tradingMode == IF tradingModeOf(h) = undefined THEN "mock" ELSE tradingModeOf(h)
        isExecuteStep == orderData.executionContext = executeStep
        isMockMode == isExecuteStep \/ tradingMode = "mock"
        baseUrl == IF apiBaseUrl = undefined THEN DefaultLedgerUrl ELSE apiBaseUrl
        userId == execContext.userId
        post == [issued |-> TRUE,
                 url |-> <<baseUrl, endpointMap(orderType)>>,
                 apiKeyHeader |-> env.apiKey,
                 userIdHeader |-> env.apiKey /\ userId # undefined,
                 bodyUserId |-> ~env.apiKey,
                 environment |-> orderData.environment,
                 executionMode |-> execContext.executionMode,
                 executionContext |-> orderData.executionContext]
        authLog == IF env.apiKey /\ userId = undefined THEN {LogNoUserId} ELSE {}
    IN  IF isMockMode
        THEN TrackOutcome(FALSE, TRUE, TRUE, FALSE, NoPost, {LogBlocking}, "{}")
        ELSE IF ~env.apiKey /\ userId = undefined
        THEN TrackOutcome(FALSE, TRUE, FALSE, TRUE, NoPost, {}, "error")
        ELSE IF env.transportOk
        THEN TrackOutcome(FALSE, TRUE, FALSE, FALSE, post, authLog, "response")
        ELSE TrackOutcome(FALSE, TRUE, FALSE, TRUE, post, authLog, "error")

\* variant: the request is made without looking at the auth material
sendOrderToAPIUnchecked(h, env, orderData, orderType, apiBaseUrl) ==
    LET execContext == getTradingExecutionContext(h, env)
        tradingMode == IF tradingModeOf(h) = undefined THEN "mock" ELSE tradingModeOf(h)
        isExecuteStep == orderData.executionContext = executeStep
        isMockMode == isExecuteStep \/ tradingMode = "mock"
        baseUrl == IF apiBaseUrl = undefined THEN DefaultLedgerUrl ELSE apiBaseUrl
        userId == execContext.userId
        post == [issued |-> TRUE,
                 url |-> <<baseUrl, endpointMap(orderType)>>,
                 apiKeyHeader |-> env.apiKey,
                 userIdHeader |-> env.apiKey /\ userId # undefined,
                 bodyUserId |-> ~env.apiKey,
                 environment |-> orderData.environment,
                 executionMode |-> execContext.executionMode,
                 executionContext |-> orderData.executionContext]
        authLog == IF env.apiKey /\ userId = undefined THEN {LogNoUserId} ELSE {}
    IN  IF isMockMode
        THEN TrackOutcome(FALSE, TRUE, TRUE, FALSE, NoPost, {LogBlocking}, "{}")
        ELSE IF env.transportOk
        THEN TrackOutcome(FALSE, TRUE, FALSE, FALSE, post, authLog, "response")
        ELSE TrackOutcome(FALSE, TRUE, FALSE, FALSE, post,
                          authLog \cup {LogFailed}, "{}")

\* variant: a known user id is always embedded in the body
sendOrderToAPIUserInBody(h, env, orderData, orderType, apiBaseUrl) ==
    LET execContext == getTradingExecutionContext(h, env)
        tradingMode == IF tradingModeOf(h) = undefined THEN "mock" ELSE tradingModeOf(h)
        isExecuteStep == orderData.executionContext = executeStep
        isMockMode == isExecuteStep \/ tradingMode = "mock"
        baseUrl == IF apiBaseUrl = undefined THEN DefaultLedgerUrl ELSE apiBaseUrl
        userId == execContext.userId
        post == [issued |-> TRUE,
                 url |-> <<baseUrl, endpointMap(orderType)>>,
                 apiKeyHeader |-> env.apiKey,
                 userIdHeader |-> env.apiKey /\ userId # undefined,
                 bodyUserId |-> userId # undefined,
                 environment |-> orderData.environment,
                 executionMode |-> execContext.executionMode,
                 executionContext |-> orderData.executionContext]
        authLog == IF env.apiKey /\ userId = undefined THEN {LogNoUserId} ELSE {}
    IN  IF isMockMode
        THEN TrackOutcome(FALSE, TRUE, TRUE, FALSE, NoPost, {LogBlocking}, "{}")
        ELSE IF ~env.apiKey /\ userId = undefined
        THEN TrackOutcome(FALSE, TRUE, FALSE, TRUE, NoPost, {}, "error")
        ELSE IF env.transportOk
        THEN TrackOutcome(FALSE, TRUE, FALSE, FALSE, post, authLog, "response")
        ELSE TrackOutcome(FALSE, TRUE, FALSE, FALSE, post,
                          authLog \cup {LogFailed}, "{}")

sendOrderToAPI(h, env, orderData, orderType, apiBaseUrl) ==
    LET execContext == getTradingExecutionContext(h, env)
        tradingMode == IF tradingModeOf(h) = undefined THEN "mock" ELSE tradingModeOf(h)
        isExecuteStep == orderData.executionContext = executeStep
        isMockMode == isExecuteStep \/ tradingMode = "mock"
        baseUrl == IF apiBaseUrl = undefined THEN DefaultLedgerUrl ELSE apiBaseUrl
        userId == execContext.userId
        post == [issued |-> TRUE,
                 url |-> <<baseUrl, endpointMap(orderType)>>,
                 apiKeyHeader |-> env.apiKey,
                 userIdHeader |-> env.apiKey /\ userId # undefined,
                 bodyUserId |-> ~env.apiKey,
                 environment |-> orderData.environment,
                 executionMode |-> execContext.executionMode,
                 executionContext |-> orderData.executionContext]
        authLog == IF env.apiKey /\ userId = undefined THEN {LogNoUserId} ELSE {}
    IN  IF isMockMode
        THEN TrackOutcome(FALSE, TRUE, TRUE, FALSE, NoPost, {LogBlocking}, "{}")
        ELSE IF ~env.apiKey /\ userId = undefined
        THEN TrackOutcome(FALSE, TRUE, FALSE, TRUE, NoPost, {}, "error")
        ELSE IF env.transportOk
        THEN TrackOutcome(FALSE, TRUE, FALSE, FALSE, post, authLog, "response")
        ELSE TrackOutcome(FALSE, TRUE, FALSE, FALSE, post,
                          authLog \cup {LogFailed}, "{}")

\* variant: a failed re-derivation falls back to execute-step
trackedExecutionContextFailSafe(h, orderExecutionContext) ==
    IF orderExecutionContext # undefined THEN orderExecutionContext
    ELSE IF getOrderExecutionContextThrows(h) THEN executeStep
    ELSE getOrderExecutionContext(h)

\* the value trackOrder works with after `if (!executionContext) try {...}`
\* (undefined when the resolver raised), for a hint that is a context or
\* undefined
trackedExecutionContext(h, orderExecutionContext) ==
    IF orderExecutionContext # undefined THEN orderExecutionContext
    ELSE IF getOrderExecutionContextThrows(h) THEN undefined
    ELSE getOrderExecutionContext(h)

\* variant: an explicit true is one vote among the fallback signals
isMockModeFlagAsHint(h, shouldMock, executionContext) ==
    LET isExecuteStep == executionContext = executeStep
        tradingMode == IF tradingModeOf(h) = undefined THEN "mock" ELSE tradingModeOf(h)
    IN  IF shouldMock = "false" THEN isExecuteStep
        ELSE isExecuteStep \/ tradingMode = "mock"

\* variant: an explicit false is taken at its word
isMockModeTrustFalse(h, shouldMock, executionContext) ==
    LET isExecuteStep == executionContext = executeStep
        tradingMode == IF tradingModeOf(h) = undefined THEN "mock" ELSE tradingModeOf(h)
    IN  IF shouldMock = "true" THEN TRUE
        ELSE IF shouldMock = "false" THEN FALSE
        ELSE isExecuteStep \/ tradingMode = "mock"

\* variant: the fallback looks at the trading mode alone
isMockModeByTradingMode(h, shouldMock, executionContext) ==
    LET isExecuteStep == executionContext = executeStep
        tradingMode == IF tradingModeOf(h) = undefined THEN "mock" ELSE tradingModeOf(h)
    IN  IF shouldMock = "true" THEN TRUE
        ELSE IF shouldMock = "false" THEN isExecuteStep
        ELSE tradingMode = "mock"

\* let isMockMode of trackOrder: shouldMock is "true", "false" or undefined,
\* executionContext a context or undefined
isMockMode(h, shouldMock, executionContext) ==
    LET isExecuteStep == executionContext = executeStep
        tradingMode == IF tradingModeOf(h) = undefined THEN "mock" ELSE tradingModeOf(h)
    IN  IF shouldMock = "true" THEN TRUE
        ELSE IF shouldMock = "false" THEN isExecuteStep
        ELSE isExecuteStep \/ tradingMode = "mock"

\* variant: trackOrder wraps the client call, logs and returns {}
trackOrderCatching(h, env, credentials, orderExecutionContext, shouldMock) ==
    LET execContext == getTradingExecutionContext(h, env)
        isTestMode == determineTestModeWithCredentials(credentials,
                          execContext.executionMode, h.active)
        environment == IF credentials.environment = "paper" THEN "paper" ELSE "live"
        executionContext == trackedExecutionContext(h, orderExecutionContext)
        contextLog == IF orderExecutionContext = undefined
                         /\ getOrderExecutionContextThrows(h)
                      THEN {LogNoContext} ELSE {}
        trackingData == [environment |-> environment,
                         executionMode |-> IF isTestMode THEN "test" ELSE "production",
                         executionContext |-> executionContext]
        sent == sendOrderToAPI(h, env, trackingData, "stock", undefined)
    IN  IF isMockMode(h, shouldMock, executionContext)
        THEN TrackOutcome(TRUE, FALSE, FALSE, FALSE, NoPost,
                          contextLog \cup {LogSkipping}, "{}")
        ELSE IF sent.threw
        THEN [sent EXCEPT !.threw = FALSE, !.result = "{}",
                          !.log = contextLog \cup @ \cup {LogFailed}]
        ELSE [sent EXCEPT !.log = contextLog \cup @]

\* trackOrder of utils/: shouldMock is "true", "false" or undefined;
\* orderExecutionContext is a context or undefined.  The client call is the
\* tail of the function: what it returns or raises is trackOrder's outcome.
trackOrder(h, env, credentials, orderExecutionContext, shouldMock) ==
    LET execContext == getTradingExecutionContext(h, env)
        isTestMode == determineTestModeWithCredentials(credentials,
                          execContext.executionMode, h.active)
        environment == IF credentials.environment = "paper" THEN "paper" ELSE "live"
        executionContext == trackedExecutionContext(h, orderExecutionContext)
        contextLog == IF orderExecutionContext = undefined
                         /\ getOrderExecutionContextThrows(h)
                      THEN {LogNoContext} ELSE {}
        trackingData == [environment |-> environment,
                         executionMode |-> IF isTestMode THEN "test" ELSE "production",
                         executionContext |-> executionContext]
        \* the nodes pass orderType 'stock' and no apiBaseUrl
        sent == sendOrderToAPI(h, env, trackingData, "stock", undefined)
    IN  IF isMockMode(h, shouldMock, executionContext)
        THEN TrackOutcome(TRUE, FALSE, FALSE, FALSE, NoPost,
                          contextLog \cup {LogSkipping}, "{}")
        ELSE [sent EXCEPT !.log = contextLog \cup @]

\* trackOrder of trading/: the caller passes the TradingEnvironment of the
\* decision (or undefined); the tracking record carries no executionContext
trackOrderTrading(h, env, credentials, tradingEnvironment) ==
    LET execContext == getTradingExecutionContext(h, env)
        isTestMode == determineTestModeWithCredentials(credentials,
                          execContext.executionMode, h.active)
        environment == IF credentials.environment = "paper" THEN "paper" ELSE "live"
        trackingData == [environment |-> environment,
                         executionMode |-> IF isTestMode THEN "test" ELSE "production",
                         executionContext |-> undefined]
    IN  IF tradingEnvironment = "mock"
        THEN TrackOutcome(TRUE, FALSE, FALSE, FALSE, NoPost, {LogSkipping}, "{}")
        ELSE sendOrderToAPI(h, env, trackingData, "stock", undefined)

(***************************************************************************)
(* State                                                                   *)
(***************************************************************************)
VARIABLES
    host,             \* the host signals of this run
    pc,               \* position: "idle"; in execute: "loop", "resolve",
                      \* "decide", "creds", "trade", "track", "emit",
                      \* "catch", "done", "thrown"; after a direct call:
                      \* "returned", "returnedTrading", "guardArgs",
                      \* "isPaperReturned", "forced", "tracked",
                      \* "trackedTrading", "sentToAPI"
    continueOnFail,   \* this.continueOnFail()
    i,                \* index of the current item, 1-based (0: not in execute)
    operation,        \* operation of the current item
    config,           \* OrderNodeConfig handed to determineExecutionBehavior
    executionResult,  \* the decision
    stored,           \* credentials as returned by getCredentials
    credentials,      \* credentials as used downstream
    baseUrl,          \* brokerage base URL chosen for the item
    request,          \* brokerage HTTP request issued for the item
    responseData,     \* "{}" | "mock" | "broker"
    tracking,         \* outcome of the item's trackOrder call
    error,            \* what the item's try block raised
    envResult,        \* outcome of a call of the TradingEnvironment engine
    returnData,       \* output entries so far
    trackCall,        \* arguments and ledger environment of the tracking call
    isPaper,          \* answer of a direct call of isPaperTrading
    invocations,      \* locals of each of the concurrent runs of execute
    credentialStore,  \* the credential objects the host hands out, by identity
    testMode          \* arguments and answer of determineTestModeWithCredentials

vars == <<host, pc, continueOnFail, i, operation, config, executionResult,
          stored, credentials, baseUrl, request, responseData, tracking,
          error, envResult, returnData, trackCall, isPaper,
          invocations, credentialStore, testMode>>

\* the variables of the single run
runVars == <<host, pc, continueOnFail, i, operation, config, executionResult,
             stored, credentials, baseUrl, request, responseData, tracking,
             error, envResult, returnData, trackCall, isPaper, testMode>>

NoConfig == [hasOrderMetadata |-> FALSE, executionContext |-> null,
             isTradeOperation |-> FALSE]
NoResult == ExecutionResult("none", FALSE, FALSE, FALSE)
NoCredentials == [ref |-> 0, environment |-> "none", secretKey |-> "none"]
NoRequest == [method |-> "none", url |-> "none"]
NoEnv == [apiKey |-> FALSE, userId |-> FALSE, executionMode |-> "none",
          transportOk |-> FALSE]
NoOrderData == [environment |-> "none", executionMode |-> "none",
                executionContext |-> "none"]
NoTrackCall == [env |-> NoEnv, orderExecutionContext |-> "none",
                shouldMock |-> "none", tradingEnvironment |-> "none",
                orderData |-> NoOrderData, orderType |-> "none",
                apiBaseUrl |-> "none", brokerResponse |-> "none"]
NoTracking == TrackOutcome(FALSE, FALSE, FALSE, FALSE, NoPost, {}, "none")

\* locals of one loop iteration, before the iteration starts
\* two runs of execute that the host may interleave
Invocations == {1, 2}

\* the credential objects of the host's store, by identity: a live bundle,
\* a paper bundle and a bundle without environment field
StoredRefs == {1, 3, 5}
StoreInit ==
    [r \in StoredRefs |->
        [ref |-> r,
         environment |-> CASE r = 1 -> "live" [] r = 3 -> "paper"
                           [] OTHER -> undefined,
         secretKey |-> IF r = 3 THEN "sk-2" ELSE "sk-1"]]

NoInvocation ==
    [host |-> "none", pc |-> "idle", i |-> 0, config |-> NoConfig,
     executionResult |-> NoResult, storedRef |-> 0,
     credentials |-> NoCredentials, baseUrl |-> "none"]

NoTestMode == [credentials |-> NoCredentials, executionMode |-> "none",
               workflowActive |-> FALSE, result |-> FALSE]

ItemLocalsReset ==
    /\ operation' = "none"
    /\ config' = NoConfig
    /\ executionResult' = NoResult
    /\ stored' = NoCredentials
    /\ credentials' = NoCredentials
    /\ baseUrl' = "none"
    /\ request' = NoRequest
    /\ responseData' = "{}"
    /\ tracking' = NoTracking
    /\ trackCall' = NoTrackCall
    /\ error' = "none"

Init ==
    /\ host \in Hosts
    /\ pc = "idle"
    /\ continueOnFail = FALSE
    /\ i = 0
    /\ operation = "none"
    /\ config = NoConfig
    /\ executionResult = NoResult
    /\ stored = NoCredentials
    /\ credentials = NoCredentials
    /\ baseUrl = "none"
    /\ request = NoRequest
    /\ responseData = "{}"
    /\ tracking = NoTracking
    /\ error = "none"
    /\ envResult = EnvResult("none", "none")
    /\ returnData = <<>>
    /\ trackCall = NoTrackCall
    /\ isPaper = FALSE
    /\ invocations = [p \in Invocations |-> NoInvocation]
    /\ credentialStore = StoreInit
    /\ testMode = NoTestMode

(***************************************************************************)
(* A direct call of OrderNodeExecutor.determineExecutionBehavior(context,  *)
(* config) with any config, under the host signals of the run.             *)
(***************************************************************************)
Configs ==
    [hasOrderMetadata : BOOLEAN,
     executionContext : OrderExecutionContext \cup {null},
     isTradeOperation : BOOLEAN]

DetermineCall ==
    /\ pc = "idle"
    /\ \E c \in Configs :
        /\ config' = c
        /\ executionResult' = determineExecutionBehavior(host, c)
    /\ pc' = "returned"
    /\ UNCHANGED <<testMode, invocations, credentialStore, isPaper, trackCall, host, continueOnFail, i, operation, stored, credentials,
                   baseUrl, request, responseData, tracking, error, returnData, envResult>>

\* the same call on the TradingEnvironment engine (its config carries no
\* executionContext)
DetermineCallTrading ==
    /\ pc = "idle"
    /\ \E c \in Configs :
        /\ c.executionContext = null
        /\ config' = c
        /\ envResult' = determineExecutionBehaviorTrading(host, c)
    /\ pc' = "returnedTrading"
    /\ UNCHANGED <<testMode, invocations, credentialStore, isPaper, trackCall, host, continueOnFail, i, operation, executionResult, stored,
                   credentials, baseUrl, request, responseData, tracking,
                   error, returnData>>

(***************************************************************************)
(* Direct calls of the credential helpers on a credentials object the      *)
(* caller holds (or on undefined, for isPaperTrading).                     *)
(***************************************************************************)
\* the caller obtains the object it is going to pass
PickCredentials ==
    /\ pc = "idle"
    /\ stored' \in StoredCredentials \cup {undefinedCredentials}
    /\ pc' = "guardArgs"
    /\ UNCHANGED <<testMode, invocations, credentialStore, isPaper, trackCall, host, continueOnFail, i, operation,
                   config, executionResult, credentials, baseUrl, request,
                   responseData, tracking, error, returnData, envResult>>

\* OrderNodeExecutor.isPaperTrading(stored)
IsPaperTradingCall ==
    /\ pc = "guardArgs"
    /\ isPaper' = isPaperTrading(stored)
    /\ pc' = "isPaperReturned"
    /\ UNCHANGED <<testMode, invocations, credentialStore, trackCall, host, continueOnFail, i, operation, config,
                   executionResult, stored, credentials, baseUrl, request,
                   responseData, tracking, error, returnData, envResult>>

\* OrderNodeExecutor.forcePaperTradingCredentials(stored): the body is one
\* return of an object literal, it holds no assignment to its parameter
ForcePaperCall ==
    /\ pc = "guardArgs"
    /\ stored # undefinedCredentials
    /\ credentials' = forcePaperTradingCredentials(stored)
    /\ pc' = "forced"
    /\ UNCHANGED <<testMode, invocations, credentialStore, isPaper, trackCall, host, continueOnFail, i, operation,
                   config, executionResult, stored, baseUrl, request,
                   responseData, tracking, error, returnData, envResult>>

(***************************************************************************)
(* AlpacaMarkets.execute, one action per step of the per-item loop         *)
(***************************************************************************)
\* const items = this.getInputData(); const returnData = []
Execute ==
    /\ pc = "idle"
    /\ pc' = "loop"
    /\ i' = 1
    /\ continueOnFail' \in BOOLEAN
    /\ UNCHANGED <<testMode, invocations, credentialStore, isPaper, trackCall, host, operation, config, executionResult, stored,
                   credentials, baseUrl, request, responseData, tracking,
                   error, returnData, envResult>>

\* loop head: operation, hasOrderMetadata, isTradeOperation, config
StartItem ==
    /\ pc = "loop"
    /\ i <= host.nItems
    /\ \E op \in Operations :
        /\ operation' = op
        /\ config' = [hasOrderMetadata |-> hasOrderMetadata(host),
                      executionContext |-> null,
                      isTradeOperation |-> isTradeOperation(op)]
    /\ pc' = "resolve"
    /\ UNCHANGED <<testMode, invocations, credentialStore, isPaper, trackCall, host, continueOnFail, i, executionResult, stored,
                   credentials, baseUrl, request, responseData, tracking,
                   error, returnData, envResult>>

\* if (hasOrderMetadata) try { getOrderExecutionContext } catch { executeStep }
ResolveContext ==
    /\ pc = "resolve"
    /\ config' = [config EXCEPT !.executionContext =
                    IF ~config.hasOrderMetadata THEN null
                    ELSE IF getOrderExecutionContextThrows(host) THEN executeStep
                    ELSE getOrderExecutionContext(host)]
    /\ pc' = "decide"
    /\ UNCHANGED <<testMode, invocations, credentialStore, isPaper, trackCall, host, continueOnFail, i, operation, executionResult, stored,
                   credentials, baseUrl, request, responseData, tracking,
                   error, returnData, envResult>>

Decide ==
    /\ pc = "decide"
    /\ executionResult' = determineExecutionBehavior(host, config)
    /\ pc' = "creds"
    /\ UNCHANGED <<testMode, invocations, credentialStore, isPaper, trackCall, host, continueOnFail, i, operation, config, stored,
                   credentials, baseUrl, request, responseData, tracking,
                   error, returnData, envResult>>

\* getCredentials, the paper override, the base URL
GetCredentials ==
    /\ pc = "creds"
    /\ \E c \in StoredCredentials :
        LET used == IF executionResult.forcePaperTrading /\ ~isPaperTrading(c)
                    THEN forcePaperTradingCredentials(c)
                    ELSE c
        IN  /\ stored' = c
            /\ credentials' = used
            /\ baseUrl' = getBaseUrl(used)
    /\ pc' = "trade"
    /\ UNCHANGED <<testMode, invocations, credentialStore, isPaper, trackCall, host, continueOnFail, i, operation, config,
                   executionResult, request, responseData, tracking, error,
                   returnData, envResult>>

\* variant: the tracking step follows the brokerage request even if it failed
PlaceOrderTrackFailed ==
    /\ pc = "trade"
    /\ operation = "placeOrder"
    /\ IF executionResult.shouldMock /\ config.isTradeOperation
       THEN /\ responseData' = mockAlpacaPlaceOrderResponse
            /\ pc' = "track"
            /\ UNCHANGED <<request, error>>
       ELSE IF executionResult.executeRealTrade
       THEN /\ request' = [method |-> "POST", url |-> baseUrl]
            /\ \E ok \in BOOLEAN :
                IF ok
                THEN responseData' = "broker" /\ pc' = "track" /\ error' = error
                ELSE responseData' = responseData /\ pc' = "track"
                     /\ error' = "brokerage"
       ELSE /\ responseData' = mockAlpacaPlaceOrderResponse
            /\ pc' = "track"
            /\ UNCHANGED <<request, error>>
    /\ UNCHANGED <<testMode, invocations, credentialStore, isPaper, trackCall, host, continueOnFail, i, operation, config,
                   executionResult, stored, credentials, baseUrl, tracking,
                   returnData, envResult>>

\* operation === 'placeOrder': mock, or POST /v2/orders, then track
PlaceOrder ==
    /\ pc = "trade"
    /\ operation = "placeOrder"
    /\ IF executionResult.shouldMock /\ config.isTradeOperation
       THEN /\ responseData' = mockAlpacaPlaceOrderResponse
            /\ pc' = "track"
            /\ UNCHANGED <<request, error>>
       ELSE IF executionResult.executeRealTrade
       THEN /\ request' = [method |-> "POST", url |-> baseUrl]
            /\ \E ok \in BOOLEAN :
                IF ok
                THEN responseData' = "broker" /\ pc' = "track" /\ error' = error
                ELSE responseData' = responseData /\ pc' = "catch"
                     /\ error' = "brokerage"
       ELSE /\ responseData' = mockAlpacaPlaceOrderResponse
            /\ pc' = "track"
            /\ UNCHANGED <<request, error>>
    /\ UNCHANGED <<testMode, invocations, credentialStore, isPaper, trackCall, host, continueOnFail, i, operation, config,
                   executionResult, stored, credentials, baseUrl, tracking,
                   returnData, envResult>>

\* operation === 'getAccount' (and getPositions): GET, never gated
ReadAccount ==
    /\ pc = "trade"
    /\ operation = "getAccount"
    /\ request' = [method |-> "GET", url |-> baseUrl]
    /\ \E ok \in BOOLEAN :
        IF ok
        THEN responseData' = "broker" /\ pc' = "emit" /\ error' = error
        ELSE responseData' = responseData /\ pc' = "catch" /\ error' = "brokerage"
    /\ UNCHANGED <<testMode, invocations, credentialStore, isPaper, trackCall, host, continueOnFail, i, operation, config,
                   executionResult, stored, credentials, baseUrl, tracking,
                   returnData, envResult>>

\* operation === 'cancelOrder': DELETE /v2/orders/{orderId}
CancelOrder ==
    /\ pc = "trade"
    /\ operation = "cancelOrder"
    /\ request' = [method |-> "DELETE", url |-> baseUrl]
    /\ \E ok \in BOOLEAN :
        IF ok
        THEN responseData' = "broker" /\ pc' = "emit" /\ error' = error
        ELSE responseData' = responseData /\ pc' = "catch" /\ error' = "brokerage"
    /\ UNCHANGED <<testMode, invocations, credentialStore, isPaper, trackCall, host, continueOnFail, i, operation, config,
                   executionResult, stored, credentials, baseUrl, tracking,
                   returnData, envResult>>

\* any other operation (modifyOrder): no branch of the if-chain is taken
OtherOperation ==
    /\ pc = "trade"
    /\ operation \notin {"placeOrder", "getAccount", "cancelOrder"}
    /\ pc' = "emit"
    /\ UNCHANGED <<testMode, invocations, credentialStore, isPaper, trackCall, host, continueOnFail, i, operation, config,
                   executionResult, stored, credentials, baseUrl, request,
                   responseData, tracking, error, returnData, envResult>>

\* variant: no try/catch around trackOrder, its error fails the item
TrackPropagate ==
    /\ pc = "track"
    /\ \E env \in LedgerEnvs :
        LET shouldMock == IF executionResult.shouldMock THEN "true" ELSE "false"
            outcome == trackOrder(host, env, credentials,
                                  executionResult.context, shouldMock)
        IN  /\ trackCall' = [NoTrackCall EXCEPT
                                !.env = env,
                                !.orderExecutionContext = executionResult.context,
                                !.shouldMock = shouldMock,
                                !.brokerResponse = responseData]
            /\ tracking' = outcome
            /\ pc' = IF outcome.threw THEN "catch" ELSE "emit"
            /\ error' = IF outcome.threw THEN "tracking" ELSE error
    /\ UNCHANGED <<testMode, invocations, credentialStore, isPaper, host, continueOnFail, i, operation, config,
                   executionResult, stored, credentials, baseUrl, request,
                   responseData, returnData, envResult>>

\* try { await trackOrder(this, data, 'stock', credentials, undefined,
\*       executionResult.context, executionResult.shouldMock) }
\* catch (trackingError) { this.logger?.warn('Failed to track order: ...') }
Track ==
    /\ pc = "track"
    /\ \E env \in LedgerEnvs :
        LET shouldMock == IF executionResult.shouldMock THEN "true" ELSE "false"
            outcome == trackOrder(host, env, credentials,
                                  executionResult.context, shouldMock)
        IN  /\ trackCall' = [NoTrackCall EXCEPT
                                !.env = env,
                                !.orderExecutionContext = executionResult.context,
                                !.shouldMock = shouldMock,
                                !.brokerResponse = responseData]
            /\ tracking' = IF outcome.threw
                           THEN [outcome EXCEPT !.log = @ \cup {LogTrackingError}]
                           ELSE outcome
    /\ pc' = "emit"
    /\ UNCHANGED <<testMode, invocations, credentialStore, isPaper, host, continueOnFail, i, operation, config,
                   executionResult, stored, credentials, baseUrl, request,
                   responseData, error, returnData, envResult>>

\* returnData.push(...constructExecutionMetaData(responseData, {item: i}))
Emit ==
    /\ pc = "emit"
    /\ returnData' = Append(returnData, [kind |-> "json", item |-> i,
                                         json |-> responseData])
    /\ i' = i + 1
    /\ pc' = "loop"
    /\ ItemLocalsReset
    /\ UNCHANGED <<testMode, invocations, credentialStore, isPaper, host, continueOnFail, envResult>>

\* variant: the failure is absorbed, the item yields an ordinary entry
CatchAbsorb ==
    /\ pc = "catch"
    /\ returnData' = Append(returnData, [kind |-> "json", item |-> i,
                                         json |-> responseData])
    /\ i' = i + 1
    /\ pc' = "loop"
    /\ ItemLocalsReset
    /\ UNCHANGED <<testMode, invocations, credentialStore, isPaper, host, continueOnFail, envResult>>

\* catch (error): continueOnFail ? push an error entry : rethrow
Catch ==
    /\ pc = "catch"
    /\ IF continueOnFail
       THEN /\ returnData' = Append(returnData, [kind |-> "error", item |-> i,
                                                 json |-> error])
            /\ i' = i + 1
            /\ pc' = "loop"
       ELSE /\ pc' = "thrown"
            /\ UNCHANGED <<returnData, i>>
    /\ ItemLocalsReset
    /\ UNCHANGED <<testMode, invocations, credentialStore, isPaper, host, continueOnFail, envResult>>

\* return [returnData]
Return ==
    /\ pc = "loop"
    /\ i > host.nItems
    /\ pc' = "done"
    /\ UNCHANGED <<testMode, invocations, credentialStore, isPaper, trackCall, host, continueOnFail, i, operation, config,
                   executionResult, stored, credentials, baseUrl, request,
                   responseData, tracking, error, returnData, envResult>>

Next ==
    \/ DetermineCall
    \/ DetermineCallTrading
    \/ PickCredentials
    \/ IsPaperTradingCall
    \/ ForcePaperCall
    \/ Execute
    \/ StartItem
    \/ ResolveContext
    \/ Decide
    \/ GetCredentials
    \/ PlaceOrder
    \/ ReadAccount
    \/ CancelOrder
    \/ OtherOperation
    \/ Track
    \/ Emit
    \/ Catch
    \/ Return

Spec == Init /\ [][Next]_vars

(***************************************************************************)
(* Direct calls of the tracking pipeline: trackOrder of utils/, trackOrder *)
(* of trading/ and sendOrderToAPI, with any arguments, under any ledger    *)
(* environment.  The pipeline reads the workflow (active, settings), the   *)
(* run-mode and the destination node; the other host signals are fixed.    *)
(***************************************************************************)
TrackerHosts ==
    { h \in Hosts : /\ h.tagged
                    /\ h.parentNodes = "some"
                    /\ h.nItems = 1
                    /\ ~h.firstJsonEmpty }

TrackerInit == Init /\ host \in TrackerHosts

TrackOrderCall ==
    /\ pc = "idle"
    /\ \E env \in LedgerEnvs,
          c \in StoredCredentials \cup {undefinedCredentials},
          orderExecutionContext \in OrderExecutionContext \cup {undefined},
          shouldMock \in {"true", "false", undefined} :
        /\ credentials' = c
        /\ trackCall' = [NoTrackCall EXCEPT
                            !.env = env,
                            !.orderExecutionContext = orderExecutionContext,
                            !.shouldMock = shouldMock]
        /\ tracking' = trackOrder(host, env, c, orderExecutionContext, shouldMock)
    /\ pc' = "tracked"
    /\ UNCHANGED <<testMode, invocations, credentialStore, isPaper, host, continueOnFail, i, operation, config,
                   executionResult, stored, baseUrl, request, responseData,
                   error, returnData, envResult>>

TrackOrderTradingCall ==
    /\ pc = "idle"
    /\ \E env \in LedgerEnvs,
          c \in StoredCredentials \cup {undefinedCredentials},
          tradingEnvironment \in TradingEnvironment \cup {undefined} :
        /\ credentials' = c
        /\ trackCall' = [NoTrackCall EXCEPT
                            !.env = env,
                            !.tradingEnvironment = tradingEnvironment]
        /\ tracking' = trackOrderTrading(host, env, c, tradingEnvironment)
    /\ pc' = "trackedTrading"
    /\ UNCHANGED <<testMode, invocations, credentialStore, isPaper, host, continueOnFail, i, operation, config,
                   executionResult, stored, baseUrl, request, responseData,
                   error, returnData, envResult>>

OrderDatas ==
    [environment : {"paper", "live"}, executionMode : {"test", "production"},
     executionContext : OrderExecutionContext \cup {undefined}]

SendOrderCall ==
    /\ pc = "idle"
    /\ \E env \in LedgerEnvs, orderData \in OrderDatas,
          orderType \in OrderTypes, apiBaseUrl \in ApiBaseUrls :
        /\ trackCall' = [NoTrackCall EXCEPT
                            !.env = env,
                            !.orderData = orderData,
                            !.orderType = orderType,
                            !.apiBaseUrl = apiBaseUrl]
        /\ tracking' = sendOrderToAPI(host, env, orderData, orderType, apiBaseUrl)
    /\ pc' = "sentToAPI"
    /\ UNCHANGED <<testMode, invocations, credentialStore, isPaper, host, continueOnFail, i, operation, config,
                   executionResult, stored, credentials, baseUrl, request,
                   responseData, error, returnData, envResult>>

\* a direct call of determineTestModeWithCredentials with any arguments
DetermineTestModeCall ==
    /\ pc = "idle"
    /\ \E c \in StoredCredentials \cup {undefinedCredentials},
          executionMode \in {"test", "production"},
          workflowActive \in BOOLEAN :
        testMode' = [credentials |-> c, executionMode |-> executionMode,
                     workflowActive |-> workflowActive,
                     result |-> determineTestModeWithCredentials(c,
                                    executionMode, workflowActive)]
    /\ pc' = "testModeReturned"
    /\ UNCHANGED <<invocations, credentialStore, isPaper, trackCall, host,
                   continueOnFail, i, operation, config, executionResult,
                   stored, credentials, baseUrl, request, responseData,
                   tracking, error, returnData, envResult>>

TrackerNext ==
    \/ TrackOrderCall
    \/ TrackOrderTradingCall
    \/ SendOrderCall
    \/ DetermineTestModeCall

TrackerSpec == TrackerInit /\ [][TrackerNext]_vars

(***************************************************************************)
(* Two runs of AlpacaMarkets.execute interleaved by the host (two          *)
(* workflows, or the same node run twice).  Each run has its own locals;   *)
(* what the runs share is the host's credential objects: getCredentials    *)
(* may hand the same object to both, and an object is read when it is      *)
(* used.  A step is the code between two awaits, or finer.                 *)
(***************************************************************************)
ConcurrentHosts ==
    { h \in Hosts : /\ h.tagged
                    /\ h.mode = "manual"
                    /\ h.settings \in {"mock", "paper"}
                    /\ h.destinationNode \in {NodeName, undefined}
                    /\ h.parentNodes = "some"
                    /\ h.nItems = MaxItems
                    /\ ~h.firstJsonEmpty }

\* no run has started; the variables of the single run stay as they are
ConcurrentInit ==
    /\ Init
    /\ host \in ConcurrentHosts
    /\ host.active /\ host.settings = "paper" /\ host.destinationNode = undefined

\* the object a local refers to, as it is now
deref(c) == IF c.ref \in StoredRefs THEN credentialStore[c.ref] ELSE c

\* const items = this.getInputData(); ... for (let i = 0; ...)
Invoke(p) ==
    /\ invocations[p].pc = "idle"
    /\ \E h \in ConcurrentHosts :
        invocations' = [invocations EXCEPT ![p] =
                            [NoInvocation EXCEPT !.host = h, !.pc = "loop", !.i = 1]]
    /\ UNCHANGED <<runVars, credentialStore>>

\* loop head up to the decision: operation, config, context, decision
DecideItem(p) ==
    LET inv == invocations[p] IN
    /\ inv.pc = "loop"
    /\ inv.i <= inv.host.nItems
    /\ \E op \in {"placeOrder", "getAccount"} :
        LET cfg == [hasOrderMetadata |-> hasOrderMetadata(inv.host),
                    executionContext |->
                        IF ~hasOrderMetadata(inv.host) THEN null
                        ELSE IF getOrderExecutionContextThrows(inv.host)
                        THEN executeStep
                        ELSE getOrderExecutionContext(inv.host),
                    isTradeOperation |-> isTradeOperation(op)]
        IN  invocations' = [invocations EXCEPT ![p] =
                [inv EXCEPT !.config = cfg,
                            !.executionResult =
                                determineExecutionBehavior(inv.host, cfg),
                            !.pc = "creds"]]
    /\ UNCHANGED <<runVars, credentialStore>>

\* let credentials = await this.getCredentials('alpacaMarketsApi', i)
GetCredentialsOf(p) ==
    LET inv == invocations[p] IN
    /\ inv.pc = "creds"
    /\ \E r \in StoredRefs :
        invocations' = [invocations EXCEPT ![p] =
            [inv EXCEPT !.storedRef = r,
                        !.credentials = credentialStore[r],
                        !.pc = "guard"]]
    /\ UNCHANGED <<runVars, credentialStore>>

\* if (forcePaperTrading && !isPaperTrading(credentials))
\*     credentials = forcePaperTradingCredentials(credentials)
\* an object returned with the identity of a stored one is the stored one
GuardCredentials(p) ==
    LET inv == invocations[p]
        current == deref(inv.credentials)
        forced == forcePaperTradingCredentials(current)
    IN
    /\ inv.pc = "guard"
    /\ IF inv.executionResult.forcePaperTrading /\ ~isPaperTrading(current)
       THEN /\ invocations' = [invocations EXCEPT ![p] =
                    [inv EXCEPT !.credentials = forced, !.pc = "url"]]
            /\ credentialStore' =
                    IF forced.ref \in StoredRefs
                    THEN [credentialStore EXCEPT ![forced.ref] = forced]
                    ELSE credentialStore
       ELSE /\ invocations' = [invocations EXCEPT ![p] = [inv EXCEPT !.pc = "url"]]
            /\ UNCHANGED credentialStore
    /\ UNCHANGED runVars

\* const baseUrl = environment === 'paper' ? paper : live; the request
SendItem(p) ==
    LET inv == invocations[p]
        used == deref(inv.credentials)
    IN
    /\ inv.pc = "url"
    /\ invocations' = [invocations EXCEPT ![p] =
            [inv EXCEPT !.credentials = used,
                        !.baseUrl = getBaseUrl(used),
                        !.pc = "sent"]]
    /\ UNCHANGED <<runVars, credentialStore>>

\* end of the loop body: the locals of the item go out of scope
NextItem(p) ==
    LET inv == invocations[p] IN
    /\ inv.pc = "sent"
    /\ invocations' = [invocations EXCEPT ![p] =
            [NoInvocation EXCEPT !.host = inv.host, !.i = inv.i + 1,
                                 !.pc = IF inv.i + 1 > inv.host.nItems
                                        THEN "done" ELSE "loop"]]
    /\ UNCHANGED <<runVars, credentialStore>>

ConcurrentNext ==
    \E p \in Invocations :
        \/ Invoke(p)
        \/ DecideItem(p)
        \/ GetCredentialsOf(p)
        \/ GuardCredentials(p)
        \/ SendItem(p)
        \/ NextItem(p)

ConcurrentSpec == ConcurrentInit /\ [][ConcurrentNext]_vars

(***************************************************************************)
(* Vocabulary of the properties                                            *)
(***************************************************************************)
\* inside AlpacaMarkets.execute, the decision of the current item is taken
NodeDecided == pc \in {"creds", "trade", "track", "emit", "catch"}

\* a decision of the utils/ engine is at hand (direct call or node)
Decided == pc = "returned" \/ NodeDecided

\* the operation is gated: capability-tagged node, trade-producing operation
Gated == config.hasOrderMetadata /\ config.isTradeOperation

\* the context the engine works with: the one handed in, else the resolved one
InputContext ==
    IF config.executionContext # null THEN config.executionContext
    ELSE IF getOrderExecutionContextThrows(host) THEN executeStep
    ELSE getOrderExecutionContext(host)

MockDecision(r) == r.shouldMock /\ r.forcePaperTrading /\ ~r.executeRealTrade
PaperDecision(r) == ~r.shouldMock /\ r.forcePaperTrading /\ r.executeRealTrade
PermissiveDecision(r) == ~r.shouldMock /\ ~r.forcePaperTrading /\ r.executeRealTrade

\* the item's trade step is over (successfully or not)
TradeStepOver == pc \in {"track", "emit", "catch"}

(***************************************************************************)
(* C1..C10                                                                 *)
(***************************************************************************)

\* C1: for a tagged, trade-producing operation whose execution context is
\* ExecuteStep, the decision is {shouldMock, forcePaperTrading,
\* ~executeRealTrade}, whatever the trading mode (mock, paper, unset) and
\* whether or not the workflow is active.
C1_ExecuteStepAlwaysMocks ==
    (Decided /\ Gated /\ InputContext = executeStep)
        => /\ MockDecision(executionResult)
           /\ executionResult.context = executeStep

C1_Witness ==
    /\ Decided /\ Gated
    /\ InputContext = executeStep
    /\ host.active
    /\ host.settings = "paper"
    /\ MockDecision(executionResult)

\* C2 (as claimed): in AlpacaMarkets.execute, a tagged trade-producing
\* operation resolved to context Active under tradingMode = mock gets the
\* mock decision.
C2_ActiveMockIsMocked ==
    (NodeDecided /\ Gated /\ config.executionContext = active
        /\ host.settings = "mock")
        => MockDecision(executionResult)

\* C3 (as claimed): once the trade step of an item is over, a decision with
\* shouldMock on a trade-producing operation means that no brokerage request
\* was issued for the item and that its response is the fabricated one.
C3_MockIssuesNoBrokerageRequest ==
    (TradeStepOver /\ executionResult.shouldMock /\ isTradeOperation(operation))
        => /\ request = NoRequest
           /\ pc # "catch"
           /\ responseData = mockAlpacaPlaceOrderResponse

\* C4: in the node, for a tagged trade-producing operation, forcePaperTrading
\* holds in every ExecuteStep and ManualInactive case, and whenever it holds
\* the credentials used downstream are paper: the credential value, the base
\* URL, the brokerage request and the tracking record.
C4_ForcedPaperCredentialsUsed ==
    (pc \in {"trade", "track", "emit", "catch"} /\ Gated)
        => /\ config.executionContext \in {executeStep, manualInactive}
                => executionResult.forcePaperTrading
           /\ executionResult.forcePaperTrading
                => /\ credentials.environment = "paper"
                   /\ credentials.secretKey = stored.secretKey
                   /\ baseUrl = PaperUrl
                   /\ request # NoRequest => request.url = PaperUrl
                   /\ tracking.post.issued => tracking.post.environment = "paper"

C4_Witness ==
    /\ pc = "emit" /\ Gated
    /\ operation = "placeOrder"
    /\ executionResult.forcePaperTrading
    /\ stored.environment = "live"
    /\ credentials.environment = "paper"
    /\ request = [method |-> "POST", url |-> PaperUrl]
    /\ tracking.post.issued

\* C5 (as claimed): in the node, a tagged trade-producing operation in
\* context Active under tradingMode = paper executes a real trade and has its
\* credentials forced to paper.
C5_ActivePaperForcesPaper ==
    (pc \in {"trade", "track", "emit", "catch"} /\ Gated
        /\ config.executionContext = active /\ host.settings = "paper")
        => /\ ~executionResult.shouldMock
           /\ executionResult.executeRealTrade
           /\ executionResult.forcePaperTrading
           /\ credentials.environment = "paper"

\* C6 (as claimed): in the node, a tagged trade-producing operation on a
\* workflow without trading mode (settings absent, or tradingMode unset)
\* gets no decision: determineExecutionBehavior raises a configuration error,
\* which takes the item to the catch block.
C6_MissingTradingModeRaises ==
    (NodeDecided /\ Gated /\ tradingModeOf(host) = undefined)
        => /\ pc = "catch"
           /\ error = "configuration"
           /\ executionResult = NoResult

\* C7: every decision for a tagged trade-producing operation has exactly one
\* of shouldMock and executeRealTrade.
C7_ExactlyOneOfMockAndReal ==
    (Decided /\ Gated)
        => (executionResult.shouldMock # executionResult.executeRealTrade)

C7_Witness ==
    /\ Decided /\ Gated
    /\ host.active
    /\ InputContext = manualInactive
    /\ ~executionResult.shouldMock
    /\ executionResult.executeRealTrade

\* C8 (as claimed): in the node, context ManualInactive gives the mock
\* decision under tradingMode = mock and the paper decision under
\* tradingMode = paper, whatever the parent nodes and the input items.
C8_ManualInactiveTable ==
    (NodeDecided /\ Gated /\ config.executionContext = manualInactive)
        => /\ host.settings = "mock" => MockDecision(executionResult)
           /\ host.settings = "paper" => PaperDecision(executionResult)

\* the run is reclassified as execute-step: manual run-mode, inactive
\* workflow, getParentNodes answers with no parent, minimal input
RefinedToExecuteStep ==
    /\ host.mode = "manual"
    /\ ~host.active
    /\ host.parentNodes = "none"
    /\ host.nItems = 0 \/ (host.nItems = 1 /\ host.firstJsonEmpty)

\* C8 (amended): with context ManualInactive on an inactive workflow, the
\* decision is the mock one with context execute-step when the run is
\* reclassified as execute-step, under either trading mode; otherwise it is
\* the mock decision under mock and the paper decision under paper, with
\* context manual-inactive.
C8_ManualInactiveTableUnlessRefined ==
    (Decided /\ Gated /\ InputContext = manualInactive /\ ~host.active
        /\ host.settings \in {"mock", "paper"})
        => IF RefinedToExecuteStep
           THEN /\ MockDecision(executionResult)
                /\ executionResult.context = executeStep
           ELSE /\ executionResult.context = manualInactive
                /\ host.settings = "mock" => MockDecision(executionResult)
                /\ host.settings = "paper" => PaperDecision(executionResult)

C8_Witness ==
    /\ NodeDecided /\ Gated
    /\ config.executionContext = manualInactive
    /\ host.settings = "paper"
    /\ host.parentNodes = "none"
    /\ host.nItems = 1 /\ ~host.firstJsonEmpty
    /\ PaperDecision(executionResult)

\* C9: without the capability tag, or for an operation that is not
\* trade-producing, the decision is the permissive one for every context,
\* trading mode (unset included) and active flag; the call returns (a
\* decision is at hand), it does not raise.
C9_UngatedIsPermissive ==
    (Decided /\ ~Gated)
        => /\ PermissiveDecision(executionResult)
           /\ executionResult.context =
                (IF config.executionContext = null THEN manualInactive
                 ELSE config.executionContext)

C9_Witness ==
    /\ pc = "returned"
    /\ config.hasOrderMetadata /\ ~config.isTradeOperation
    /\ config.executionContext = executeStep
    /\ tradingModeOf(host) = undefined
    /\ ~host.active
    /\ PermissiveDecision(executionResult)

\* the reference table of the resolver, one row per combination of
\* <<destination node = current node, run-mode manual, workflow active>>
ContextTable ==
    [ t \in BOOLEAN \X BOOLEAN \X BOOLEAN |->
        CASE t = <<TRUE, TRUE, TRUE>> -> executeStep
          [] t = <<TRUE, TRUE, FALSE>> -> executeStep
          [] t = <<TRUE, FALSE, TRUE>> -> active
          [] t = <<TRUE, FALSE, FALSE>> -> manualInactive
          [] t = <<FALSE, TRUE, TRUE>> -> active
          [] t = <<FALSE, TRUE, FALSE>> -> manualInactive
          [] t = <<FALSE, FALSE, TRUE>> -> active
          [] t = <<FALSE, FALSE, FALSE>> -> manualInactive ]

\* C10: the context the node resolves for an item equals the reference
\* table, for every destination node, run-mode and active flag.
C10_ResolverMatchesTable ==
    (pc = "decide" /\ config.hasOrderMetadata /\ host.mode # "unavailable")
        => config.executionContext =
             ContextTable[<<host.destinationNode = NodeName,
                            host.mode = "manual", host.active>>]

C10_Witness ==
    /\ pc = "decide" /\ config.hasOrderMetadata
    /\ host.destinationNode = NodeName
    /\ host.mode = "manual"
    /\ host.active
    /\ config.executionContext = executeStep

(***************************************************************************)
(* C11..C20                                                                *)
(***************************************************************************)

\* C11 (as claimed, for the run-mode signal): in the node, when the host
\* populated neither the run-mode field nor the mode accessor, the context
\* the item ends up with is ManualInactive.
C11_UnavailableModeIsManualInactive ==
    (pc = "decide" /\ config.hasOrderMetadata /\ host.mode = "unavailable")
        => config.executionContext = manualInactive

\* C11 (amended): context resolution never aborts an item of the node.  When
\* the run-mode signal is unavailable the resolver raises and the node
\* classifies the item as ExecuteStep; when the run data or destination node
\* is missing the item is classified as if another node were the
\* destination: Active on an active workflow, ManualInactive otherwise.
C11_UnavailableSignalsFallBack ==
    /\ (pc = "decide" /\ config.hasOrderMetadata)
         => /\ host.mode = "unavailable"
                 => config.executionContext = executeStep
            /\ (host.mode # "unavailable" /\ host.destinationNode = undefined)
                 => config.executionContext =
                      (IF host.active THEN active ELSE manualInactive)
    /\ pc = "catch" => error = "brokerage"

C11_Witness ==
    /\ pc = "decide" /\ config.hasOrderMetadata
    /\ host.mode = "unavailable"
    /\ host.destinationNode = undefined
    /\ ~host.active
    /\ config.executionContext = executeStep

\* the host signals that make refineExecutionContext read a manual run as a
\* single-step one: manual run-mode, no parent node, minimal input
LooksLikeSingleStep(h) ==
    h.mode = "manual" /\ h.parentNodes = "none" /\ hasMinimalInput(h)

\* C12 (as claimed): a call of determineExecutionBehavior with a resolved
\* context returns the decision that any other host with the same trading
\* mode gets for the same config, whatever the active flag, the parent
\* nodes, the input items and the other signals of that host.
C12_DecisionDependsOnFourInputs ==
    (pc = "returned" /\ config.executionContext # null)
        => \A h2 \in Hosts :
              tradingModeOf(h2) = tradingModeOf(host)
                  => determineExecutionBehavior(h2, config) = executionResult

\* C12 (amended): the decision is a deterministic function of the config
\* (capability, trade-producing operation, resolved context), the trading
\* mode, the workflow's active flag and whether the run looks like a
\* single-step one; hosts that agree on these get the same decision,
\* whatever their other signals.
C12_DecisionDependsOnHostToo ==
    (pc = "returned" /\ config.executionContext # null)
        => \A h2 \in Hosts :
              ( /\ tradingModeOf(h2) = tradingModeOf(host)
                /\ h2.active = host.active
                /\ LooksLikeSingleStep(h2) = LooksLikeSingleStep(host) )
                  => determineExecutionBehavior(h2, config) = executionResult

C12_Witness ==
    /\ pc = "returned" /\ Gated
    /\ config.executionContext = manualInactive
    /\ host.settings = "paper"
    /\ ~host.active
    /\ LooksLikeSingleStep(host)
    /\ executionResult.context = executeStep
    /\ \E h2 \in Hosts :
          /\ tradingModeOf(h2) = "paper" /\ ~h2.active
          /\ ~LooksLikeSingleStep(h2)
          /\ PaperDecision(determineExecutionBehavior(h2, config))

\* C13: forcePaperTradingCredentials(c) leaves c as it was and returns
\* another object whose environment is paper and whose other fields are
\* c's (in a direct call and where the node overrides the credentials);
\* isPaperTrading(c) answers true exactly when c is defined and its
\* environment is paper.
C13_GuardCopiesAndReads ==
    /\ [](pc = "forced"
            => /\ credentials.ref # stored.ref
               /\ credentials.environment = "paper"
               /\ credentials.secretKey = stored.secretKey)
    /\ []((pc = "trade" /\ executionResult.forcePaperTrading
             /\ stored.environment # "paper")
            => /\ credentials.ref # stored.ref
               /\ credentials.environment = "paper"
               /\ credentials.secretKey = stored.secretKey)
    /\ [][pc = "guardArgs" => stored' = stored]_vars
    /\ [](pc = "isPaperReturned"
            => (isPaper <=> (stored # undefinedCredentials
                             /\ stored.environment = "paper")))

C13_Witness ==
    /\ pc = "forced"
    /\ stored = [ref |-> 1, environment |-> "live", secretKey |-> "sk-2"]
    /\ credentials = [ref |-> 2, environment |-> "paper", secretKey |-> "sk-2"]

\* the tracking call was skipped as mock: the client was not invoked, no
\* request went out, the info line was written, the caller got {}
SkippedAsMock(t) ==
    /\ t.isMockMode
    /\ ~t.sent
    /\ ~t.post.issued
    /\ ~t.threw
    /\ LogSkipping \in t.log
    /\ t.result = "{}"

\* the tracking call was handed to sendOrderToAPI
Delegated(t) == ~t.isMockMode /\ t.sent

C15_ExecuteStepOverridesFalse ==
    (pc = "tracked" /\ trackCall.shouldMock = "false"
        /\ trackedExecutionContext(host, trackCall.orderExecutionContext)
               = executeStep)
        => SkippedAsMock(tracking)

C15_Witness ==
    /\ pc = "tracked"
    /\ trackCall.shouldMock = "false"
    /\ trackCall.orderExecutionContext = undefined
    /\ host.destinationNode = NodeName /\ host.mode = "manual"
    /\ host.settings = "paper"
    /\ trackCall.env.apiKey
    /\ SkippedAsMock(tracking)

\* C16: a call of trackOrder with shouldMock unset is mock exactly when the
\* context is ExecuteStep or the trading mode is mock (an unset trading mode
\* reads as mock); under paper with another context the call is delegated
\* to sendOrderToAPI, under mock it is skipped as mock.
C16_UnsetFlagFallsBack ==
    (pc = "tracked" /\ trackCall.shouldMock = undefined)
        => LET executionContext ==
                   trackedExecutionContext(host, trackCall.orderExecutionContext)
               tradingMode == IF tradingModeOf(host) = undefined THEN "mock"
                              ELSE tradingModeOf(host)
           IN  /\ tracking.isMockMode
                    <=> (executionContext = executeStep \/ tradingMode = "mock")
               /\ (tradingMode = "paper" /\ executionContext # executeStep)
                    => Delegated(tracking)
               /\ tradingMode = "mock" => SkippedAsMock(tracking)

C16_Witness ==
    /\ pc = "tracked"
    /\ trackCall.shouldMock = undefined
    /\ trackCall.orderExecutionContext = manualInactive
    /\ host.settings = "paper"
    /\ trackCall.env.apiKey /\ trackCall.env.transportOk
    /\ Delegated(tracking)
    /\ tracking.post.issued

\* C17 (as claimed): in the node, when trackOrder computed isMockMode =
\* false for an item and handed it to the client, and an API key or a user
\* id is available, the POST to the ledger is issued for the item.
C17_NonMockWriteIsPosted ==
    (pc = "emit" /\ Delegated(tracking)
        /\ (trackCall.env.apiKey \/ trackCall.env.userId))
        => tracking.post.issued

\* C18 (as claimed): no tracking call of the node ends with trackOrder
\* raising.
C18_TrackOrderNeverRaises ==
    pc = "emit" => ~tracking.threw

\* C18 (amended): trackOrder catches nothing.  In the node, the call of
\* trackOrder raises exactly when the client got past its mock safety check
\* with neither an API key nor a user id; the node's own catch then logs a
\* warning and the item goes on with its brokerage response.  A transport
\* failure does not reach trackOrder as an error: the client has logged the
\* warning and returned {}.
C18_AuthErrorLeavesTrackOrder ==
    (pc = "emit" /\ tracking.sent)
        => /\ tracking.threw
                <=> (~tracking.blocked /\ ~trackCall.env.apiKey
                     /\ ~trackCall.env.userId)
           /\ tracking.threw
                => /\ LogTrackingError \in tracking.log
                   /\ ~tracking.post.issued
                   /\ error = "none"
                   /\ responseData = "broker"
           /\ (tracking.post.issued /\ ~trackCall.env.transportOk)
                => /\ ~tracking.threw
                   /\ tracking.result = "{}"
                   /\ LogFailed \in tracking.log

C18_Witness ==
    /\ pc = "emit"
    /\ host.settings = "paper" /\ ~host.active
    /\ config.executionContext = manualInactive
    /\ ~trackCall.env.apiKey /\ ~trackCall.env.userId
    /\ tracking.threw
    /\ LogTrackingError \in tracking.log
    /\ responseData = "broker"

\* C19 (as claimed): a call of sendOrderToAPI whose POST fails in transport
\* raises to its caller.
C19_TransportFailureSurfaces ==
    (pc = "sentToAPI" /\ tracking.post.issued /\ ~trackCall.env.transportOk)
        => /\ tracking.threw
           /\ tracking.result # "{}"

\* C19 (amended): a call of sendOrderToAPI whose POST fails in transport
\* does not raise: it logs a warning and returns {} to its caller.
C19_TransportFailureSwallowed ==
    (pc = "sentToAPI" /\ tracking.post.issued /\ ~trackCall.env.transportOk)
        => /\ ~tracking.threw
           /\ tracking.result = "{}"
           /\ LogFailed \in tracking.log

C19_Witness ==
    /\ pc = "sentToAPI"
    /\ host.settings = "paper"
    /\ trackCall.orderData.executionContext = active
    /\ trackCall.env.apiKey
    /\ ~trackCall.env.transportOk
    /\ tracking.post.issued
    /\ tracking.result = "{}"

\* the client's safety check applies: the record names execute-step, or the
\* workflow's trading mode is mock or unset
BlockedBySafetyCheck ==
    \/ trackCall.orderData.executionContext = executeStep
    \/ tradingModeOf(host) \in {"mock", undefined}

\* C20 (as claimed): a call of sendOrderToAPI with neither an API key nor a
\* user id raises and makes no HTTP request, for every order type, base URL
\* and workflow setting.
C20_NoAuthAlwaysRaises ==
    (pc = "sentToAPI" /\ ~trackCall.env.apiKey /\ ~trackCall.env.userId)
        => /\ tracking.threw
           /\ ~tracking.post.issued

\* C20 (amended): a call of sendOrderToAPI with neither an API key nor a
\* user id makes no HTTP request, for every order type, base URL and
\* workflow setting; it raises unless the client's mock safety check
\* applies, in which case it logs the info line and returns {}.
C20_NoAuthNeverPosts ==
    (pc = "sentToAPI" /\ ~trackCall.env.apiKey /\ ~trackCall.env.userId)
        => /\ ~tracking.post.issued
           /\ IF BlockedBySafetyCheck
              THEN /\ ~tracking.threw
                   /\ tracking.result = "{}"
                   /\ LogBlocking \in tracking.log
              ELSE /\ tracking.threw
                   /\ tracking.result = "error"

C20_Witness ==
    /\ pc = "sentToAPI"
    /\ ~trackCall.env.apiKey /\ ~trackCall.env.userId
    /\ host.settings = "paper" /\ host.active
    /\ trackCall.orderData.executionContext = active
    /\ trackCall.orderType = "predictionMarket"
    /\ trackCall.apiBaseUrl # undefined
    /\ tracking.threw
    /\ ~tracking.post.issued

(***************************************************************************)
(* C21..C30                                                                *)
(***************************************************************************)

\* C21: every POST of sendOrderToAPI carries, with an API key configured,
\* the X-API-Key header, the X-User-Id header exactly when a user id is
\* known, and no userId in the body; without an API key it carries neither
\* header and the (known) userId in the body.  With an API key, a missing
\* user id does not prevent the request.
C21_PostAuthMaterial ==
    /\ (pc \in {"sentToAPI", "tracked", "trackedTrading"} /\ tracking.post.issued)
         => IF trackCall.env.apiKey
            THEN /\ tracking.post.apiKeyHeader
                 /\ tracking.post.userIdHeader <=> trackCall.env.userId
                 /\ ~tracking.post.bodyUserId
            ELSE /\ ~tracking.post.apiKeyHeader
                 /\ ~tracking.post.userIdHeader
                 /\ tracking.post.bodyUserId
                 /\ trackCall.env.userId
    /\ (pc = "sentToAPI" /\ trackCall.env.apiKey /\ ~BlockedBySafetyCheck)
         => tracking.post.issued

C21_Witness ==
    /\ pc = "sentToAPI"
    /\ trackCall.env.apiKey /\ ~trackCall.env.userId
    /\ tracking.post.issued
    /\ tracking.post.apiKeyHeader
    /\ ~tracking.post.userIdHeader
    /\ ~tracking.post.bodyUserId
    /\ LogNoUserId \in tracking.log

\* the test/production classification trackOrder computes for the call at hand
trackOrderClassification ==
    IF determineTestModeWithCredentials(credentials,
           getTradingExecutionContext(host, trackCall.env).executionMode,
           host.active)
    THEN "test" ELSE "production"

\* C22: the executionMode of the body POSTed for an order of the node is the
\* test/production classification trackOrder computed from the credentials,
\* the run-mode and the active flag; the client does not replace it.
C22_BodyKeepsClassification ==
    (pc = "emit" /\ tracking.post.issued)
        => tracking.post.executionMode = trackOrderClassification

\* C23: a failed brokerage request of item i is not absorbed.  With
\* continue-on-fail the output gains exactly one error entry paired with
\* item i and the loop goes on with item i+1; otherwise the error leaves
\* the node, the output gains nothing and no step follows.  Every entry of
\* the output is paired with its own item, so item i never has a second,
\* successful-looking entry.
C23_BrokerageFailureNotAbsorbed ==
    /\ [](pc = "catch" => error = "brokerage")
    /\ [][pc = "catch" =>
            IF continueOnFail
            THEN /\ returnData' = Append(returnData,
                        [kind |-> "error", item |-> i, json |-> "brokerage"])
                 /\ i' = i + 1
                 /\ pc' = "loop"
            ELSE /\ pc' = "thrown"
                 /\ returnData' = returnData
                 /\ i' = i]_vars
    /\ [][pc = "thrown" => FALSE]_vars
    /\ [](\A k \in 1..Len(returnData) : returnData[k].item = k)
    /\ [](pc = "thrown" => Len(returnData) = i - 1)

C23_Witness ==
    /\ pc = "done"
    /\ continueOnFail
    /\ Len(returnData) = 2
    /\ returnData[1] = [kind |-> "error", item |-> 1, json |-> "brokerage"]
    /\ returnData[2].kind = "json"

\* C24: whatever trackOrder does for an item whose trade step succeeded
\* (POST, skip as mock, block, error for missing authentication, transport
\* failure), the item's output entry is the response of the trade step (of
\* the brokerage, or the mock) and the item is not marked failed.
C24_TrackingNeverChangesOutput ==
    /\ []((pc \in {"track", "emit"} /\ operation = "placeOrder")
            => /\ error = "none"
               /\ responseData = IF request.method = "POST" THEN "broker"
                                 ELSE mockAlpacaPlaceOrderResponse)
    /\ [][pc = "track" => /\ pc' = "emit"
                          /\ responseData' = responseData
                          /\ returnData' = returnData
                          /\ error' = error
                          /\ i' = i]_vars
    /\ [][pc = "emit" => returnData' = Append(returnData,
                            [kind |-> "json", item |-> i,
                             json |-> responseData])]_vars

C24_Witness ==
    /\ pc = "emit"
    /\ operation = "placeOrder"
    /\ tracking.threw
    /\ LogTrackingError \in tracking.log
    /\ responseData = "broker"
    /\ error = "none"

\* C25: within an item the steps run in the order resolve, decide,
\* credentials, trade or mock, track; trackOrder starts only from a trade
\* step that returned without error and is handed that step's response;
\* the item counter moves only once the item's tracking is over (completed
\* or failed) or the item has failed.
C25_PerItemOrder ==
    /\ [][/\ pc' = "resolve" => pc \in {"loop", "resolve"}
          /\ pc' = "decide" => pc \in {"resolve", "decide"}
          /\ pc' = "creds" => pc \in {"decide", "creds"}
          /\ pc' = "trade" => pc \in {"creds", "trade"}
          /\ pc' = "track" => pc \in {"trade", "track"}
          /\ (pc = "trade" /\ pc' = "track")
               => /\ error' = "none"
                  /\ responseData' \in {"broker", mockAlpacaPlaceOrderResponse}
          /\ (pc = "track" /\ pc' # "track")
               => /\ pc' = "emit"
                  /\ trackCall'.brokerResponse = responseData
                  /\ tracking'.result # "none"
          /\ i' # i => /\ pc \in {"idle", "emit", "catch"}
                       /\ pc' = "loop"]_vars
    /\ []((pc = "emit" /\ operation = "placeOrder")
            => /\ tracking.result # "none"
               /\ trackCall.brokerResponse = responseData)
    /\ []((pc = "emit" /\ operation # "placeOrder") => tracking = NoTracking)

C25_Witness ==
    /\ pc = "emit"
    /\ i = 2
    /\ operation = "placeOrder"
    /\ responseData = "broker"
    /\ trackCall.brokerResponse = "broker"
    /\ tracking.post.issued
    /\ Len(returnData) = 1
    /\ returnData[1].kind = "json"

\* C26: for a gated operation, the mock classification trackOrder makes on
\* its own (flag unset) from the context and the workflow's settings equals
\* the engine's shouldMock, for every context, active flag and trading mode.
C26_TrackerAgreesWithEngine ==
    (Decided /\ Gated)
        => (isMockMode(host, undefined, InputContext)
              <=> executionResult.shouldMock)

\* what an item's credentials must be, from the stored bundle it was given
\* and its own decision
CredentialsDue(storedBundle, result) ==
    IF result.forcePaperTrading /\ storedBundle.environment # "paper"
    THEN [ref |-> storedBundle.ref + 1, environment |-> "paper",
          secretKey |-> storedBundle.secretKey]
    ELSE storedBundle

C28_TestModeExactly ==
    pc = "testModeReturned"
        => /\ testMode.result <=> \/ testMode.credentials.environment = "paper"
                                   \/ testMode.executionMode = "test"
                                   \/ ~testMode.workflowActive
           /\ (/\ testMode.credentials.environment \in {"live", undefined}
                /\ testMode.executionMode = "production"
                /\ testMode.workflowActive) => ~testMode.result

C28_Witness ==
    /\ pc = "testModeReturned"
    /\ testMode.credentials = undefinedCredentials
    /\ testMode.executionMode = "production"
    /\ testMode.workflowActive
    /\ ~testMode.result

\* trackOrder was called without a context hint, with the flag false, on a
\* host whose context cannot be re-derived
ContextLostCall ==
    /\ pc = "tracked"
    /\ trackCall.orderExecutionContext = undefined
    /\ trackCall.shouldMock = "false"
    /\ getOrderExecutionContextThrows(host)

\* C29 (as claimed): when trackOrder has no context hint and re-deriving
\* the context raises, trackOrder does not raise; it logs 'Could not
\* determine OrderExecutionContext for tracking', takes the context as
\* unknown and, the flag being false, delegates to sendOrderToAPI with an
\* undefined executionContext.
C29_ContextFailureNeverRaises ==
    ContextLostCall
        => /\ ~tracking.threw
           /\ LogNoContext \in tracking.log
           /\ Delegated(tracking)
           /\ tracking.post.issued => tracking.post.executionContext = undefined

\* C29 (amended): the failed re-derivation itself is absorbed: trackOrder
\* logs the warning, takes the context as unknown and, the flag being
\* false, delegates to sendOrderToAPI with an undefined executionContext.
\* The call still raises exactly when the client, past its mock safety
\* check, finds neither an API key nor a user id.
C29_ContextFailureAbsorbed ==
    ContextLostCall
        => /\ LogNoContext \in tracking.log
           /\ Delegated(tracking)
           /\ tracking.post.issued => tracking.post.executionContext = undefined
           /\ tracking.threw <=> (/\ ~tracking.blocked
                                  /\ ~trackCall.env.apiKey
                                  /\ ~trackCall.env.userId)
           /\ (~tracking.blocked /\ ~tracking.threw) => tracking.post.issued

C29_Witness ==
    /\ ContextLostCall
    /\ LogNoContext \in tracking.log
    /\ tracking.sent
    /\ tracking.post.issued
    /\ tracking.post.executionContext = undefined

\* C30: the environment written into the tracking record of an item names
\* the brokerage environment the item's trade was sent to: 'paper' exactly
\* when the node chose the paper base URL, 'live' exactly when it chose the
\* live one, also for credentials that carry no environment field.
C30_RecordNamesBrokerageEnvironment ==
    (pc = "emit" /\ tracking.post.issued)
        => /\ tracking.post.environment = "paper" <=> baseUrl = PaperUrl
           /\ tracking.post.environment = "live" <=> baseUrl = LiveUrl

====
